---- MODULE Spec2Model ----
(***************************************************************************)
(* A model of the RESP codec of src/src/resp.rs: the Value type, the       *)
(* encoder Value::serialise, the recursive-descent decoder parse_message   *)
(* and the stream adapter RespHandler (read_value / write_value).          *)
(*                                                                         *)
(* Bytes are the integers 0..255.  A Rust String is modelled as the        *)
(* sequence of its chars (Unicode scalar values); String::from_utf8 and    *)
(* str::as_bytes are the UTF-8 decoder and encoder below.                  *)
(***************************************************************************)
EXTENDS Integers, Sequences, FiniteSets, TLC

VARIABLES
    overflow_checks, \* build profile: TRUE = arithmetic overflow panics (debug),
                     \* FALSE = it wraps (release)
    phase,           \* position of the codec driver
    value,           \* the Value handed to the encoder
    input,           \* the byte buffer handed to parse_message
    result,          \* what parse_message returned
    stream_in,       \* bytes the peer sent that the transport has not delivered yet
    closed,          \* the peer closed its side of the connection
    buffer,          \* RespHandler.buffer
    framed,          \* the values the peer framed, in order
    values_returned, \* the values read_value returned as Ok(Some(v)), in order
    last,            \* a record of the last RespHandler call
    stream_out,      \* bytes the transport accepted from write_value
    alive            \* FALSE once a panic unwound the connection's task

vars == <<overflow_checks, phase, value, input, result, stream_in, closed,
          buffer, framed, values_returned, last, stream_out, alive>>

codec_vars == <<phase, value, input, result>>
handler_vars == <<stream_in, closed, buffer, framed, values_returned, last,
                  stream_out, alive>>

(***************************************************************************)
(* Bounds of the model.                                                    *)
(***************************************************************************)
MaxFragments == 4   \* decoder inputs are built from at most this many fragments
MaxStrLen == 2      \* chars in a string handed to the encoder
MaxItems == 2       \* elements of an array handed to the encoder
MaxFrames == 3      \* frames the peer sends on one connection
MaxOut == 3         \* write_value is called while fewer bytes than this were written

(***************************************************************************)
(* Bytes the code names.                                                   *)
(***************************************************************************)
CR == 13
LF == 10
Plus == 43
Dollar == 36
Star == 42
Minus == 45
Zero == 48

Min(S) == CHOOSE x \in S : \A y \in S : x <= y

RECURSIVE Flatten(_)
Flatten(ss) == IF ss = <<>> THEN <<>> ELSE Head(ss) \o Flatten(Tail(ss))

RECURSIVE Sum(_)
Sum(ns) == IF ns = <<>> THEN 0 ELSE Head(ns) + Sum(Tail(ns))

(***************************************************************************)
(* Value (resp.rs 8-13).                                                   *)
(***************************************************************************)
SimpleString(s) == [tag |-> "SimpleString", text |-> s, items |-> <<>>]
BulkString(s) == [tag |-> "BulkString", text |-> s, items |-> <<>>]
Array(vs) == [tag |-> "Array", text |-> <<>>, items |-> vs]
NoValue == [tag |-> "none", text |-> <<>>, items |-> <<>>]

(***************************************************************************)
(* Result<(Value, usize)>: Ok, Err, or a panic that unwinds the caller.    *)
(***************************************************************************)
Ok(v, n) == [kind |-> "ok", v |-> v, n |-> n]
Err == [kind |-> "err", v |-> NoValue, n |-> 0]
Panic == [kind |-> "panic", v |-> NoValue, n |-> 0]
NoResult == [kind |-> "none", v |-> NoValue, n |-> 0]

(***************************************************************************)
(* UTF-8.  as_bytes: chars to bytes.  from_utf8: bytes to chars, failing   *)
(* on a stray continuation byte, a truncated or overlong sequence, a       *)
(* surrogate or a scalar above 10FFFF.                                     *)
(***************************************************************************)
Utf8Char(c) ==
    IF c < 128 THEN <<c>>
    ELSE IF c < 2048 THEN <<192 + (c \div 64), 128 + (c % 64)>>
    ELSE IF c < 65536 THEN
        <<224 + (c \div 4096), 128 + ((c \div 64) % 64), 128 + (c % 64)>>
    ELSE <<240 + (c \div 262144), 128 + ((c \div 4096) % 64),
           128 + ((c \div 64) % 64), 128 + (c % 64)>>

RECURSIVE as_bytes(_)
as_bytes(s) == IF s = <<>> THEN <<>> ELSE Utf8Char(Head(s)) \o as_bytes(Tail(s))

IsCont(b) == b >= 128 /\ b <= 191

RECURSIVE from_utf8(_)
from_utf8(bs) ==
    IF bs = <<>> THEN [ok |-> TRUE, chars |-> <<>>]
    ELSE
        LET b == bs[1]
            n == Len(bs)
            need == IF b < 128 THEN 1
                    ELSE IF b >= 194 /\ b <= 223 THEN 2
                    ELSE IF b >= 224 /\ b <= 239 THEN 3
                    ELSE IF b >= 240 /\ b <= 244 THEN 4
                    ELSE 0
            wellFormed ==
                /\ need > 0
                /\ n >= need
                /\ \A i \in 2..need : IsCont(bs[i])
                /\ (b = 224 => bs[2] >= 160)
                /\ (b = 237 => bs[2] <= 159)
                /\ (b = 240 => bs[2] >= 144)
                /\ (b = 244 => bs[2] <= 143)
        IN  IF ~wellFormed THEN [ok |-> FALSE, chars |-> <<>>]
            ELSE
                LET c == IF need = 1 THEN b
                         ELSE IF need = 2 THEN (b - 192) * 64 + (bs[2] - 128)
                         ELSE IF need = 3 THEN
                             (b - 224) * 4096 + (bs[2] - 128) * 64 + (bs[3] - 128)
                         ELSE (b - 240) * 262144 + (bs[2] - 128) * 4096
                              + (bs[3] - 128) * 64 + (bs[4] - 128)
                    rest == from_utf8(SubSeq(bs, need + 1, n))
                IN  IF rest.ok THEN [ok |-> TRUE, chars |-> <<c>> \o rest.chars]
                    ELSE rest

(***************************************************************************)
(* Decimal text of a usize, as format!("{}", n) writes it.                 *)
(***************************************************************************)
RECURSIVE Decimal(_)
Decimal(n) ==
    IF n < 10 THEN <<Zero + n>> ELSE Decimal(n \div 10) \o <<Zero + (n % 10)>>

(***************************************************************************)
(* Value::serialise (resp.rs 16-22): the String, or a panic.               *)
(***************************************************************************)
serialise(v) ==
    CASE v.tag = "SimpleString" ->
            [panic |-> FALSE, text |-> <<Plus>> \o v.text \o <<CR, LF>>]
      [] v.tag = "BulkString" ->
            [panic |-> FALSE,
             text |-> <<Dollar>> \o Decimal(Len(v.text)) \o <<CR, LF>>
                      \o v.text \o <<CR, LF>>]
      [] OTHER -> [panic |-> TRUE, text |-> <<>>]

(***************************************************************************)
(* read_until_crlf (resp.rs 64-71).  Indices here are 1-based: the Rust    *)
(* index i is j - 1.                                                       *)
(***************************************************************************)
read_until_crlf(buf) ==
    LET hits == {j \in 2..Len(buf) : buf[j - 1] = CR /\ buf[j] = LF}
    IN  IF hits = {} THEN [found |-> FALSE, line |-> <<>>, len |-> 0]
        ELSE LET j == Min(hits)
             IN  [found |-> TRUE, line |-> SubSeq(buf, 1, j - 2), len |-> j]

(***************************************************************************)
(* parse_simple_string (resp.rs 73-80).  from_utf8(..).unwrap() panics on  *)
(* a line that is not UTF-8.                                               *)
(***************************************************************************)
parse_simple_string(buf) ==
    LET r == read_until_crlf(Tail(buf))
    IN  IF r.found
        THEN LET s == from_utf8(r.line)
             IN  IF s.ok THEN Ok(SimpleString(s.chars), r.len + 1) ELSE Panic
        ELSE Err

(***************************************************************************)
(* parse_int (resp.rs 82-84): from_utf8, then str::parse::<i64>: an        *)
(* optional sign followed by at least one ASCII digit.  The header lines   *)
(* of the bounded inputs are far shorter than the 19 digits of i64::MAX,   *)
(* so the out-of-range error is not reachable here.                        *)
(***************************************************************************)
IsDigit(c) == c >= Zero /\ c <= Zero + 9

RECURSIVE DigitsValue(_, _)
DigitsValue(ds, acc) ==
    IF ds = <<>> THEN acc
    ELSE DigitsValue(Tail(ds), acc * 10 + (Head(ds) - Zero))

parse_int(line) ==
    LET s == from_utf8(line)
        bad == [ok |-> FALSE, val |-> 0]
    IN  IF ~s.ok \/ s.chars = <<>> THEN bad
        ELSE
            LET signed == Len(s.chars) > 1 /\ s.chars[1] \in {Plus, Minus}
                digits == IF signed THEN Tail(s.chars) ELSE s.chars
            IN  IF \E i \in 1..Len(digits) : ~IsDigit(digits[i]) THEN bad
                ELSE IF signed /\ s.chars[1] = Minus
                     THEN [ok |-> TRUE, val |-> 0 - DigitsValue(digits, 0)]
                     ELSE [ok |-> TRUE, val |-> DigitsValue(digits, 0)]

(***************************************************************************)
(* usize arithmetic.  A usize is [high, low], standing for                 *)
(* (IF high THEN 2^64 ELSE 0) + low, with low < 0 exactly when high: the   *)
(* values of the model are within a few hundred of 0 or of 2^64.           *)
(***************************************************************************)
usize(n) == [high |-> FALSE, low |-> n]

\* `n as usize` for an i64 n: a negative n becomes 2^64 + n.
as_usize(n) == [high |-> n < 0, low |-> n]

\* x + y: whether it overflows 64 bits, and the wrapped sum.
usize_add(x, y) ==
    LET s == x.low + y.low
    IN  IF x.high /\ y.high THEN [overflow |-> TRUE, val |-> [high |-> TRUE, low |-> s]]
        ELSE IF x.high \/ y.high
             THEN IF s >= 0 THEN [overflow |-> TRUE, val |-> [high |-> FALSE, low |-> s]]
                  ELSE [overflow |-> FALSE, val |-> [high |-> TRUE, low |-> s]]
        ELSE [overflow |-> FALSE, val |-> [high |-> FALSE, low |-> s]]

(***************************************************************************)
(* parse_bulk_string (resp.rs 86-102).  buffer[a..b] panics when a > b or  *)
(* b > buffer.len().                                                       *)
(***************************************************************************)
parse_bulk_string(buf) ==
    LET r == read_until_crlf(Tail(buf))
    IN  IF ~r.found THEN Err
        ELSE
        LET len == parse_int(r.line)
        IN  IF ~len.ok THEN Err
            ELSE
            LET bytes_consumsed == r.len + 1
                e == usize_add(usize(bytes_consumsed), as_usize(len.val))
                end_of_bulk_str == e.val
                t == usize_add(end_of_bulk_str, usize(2))
                total_parsed == t.val
            IN  IF overflow_checks /\ (e.overflow \/ t.overflow) THEN Panic
                ELSE IF end_of_bulk_str.high THEN Panic
                ELSE IF bytes_consumsed > end_of_bulk_str.low THEN Panic
                ELSE IF end_of_bulk_str.low > Len(buf) THEN Panic
                ELSE
                LET s == from_utf8(SubSeq(buf, bytes_consumsed + 1,
                                          end_of_bulk_str.low))
                IN  IF s.ok THEN Ok(BulkString(s.chars), total_parsed.low)
                    ELSE Err

(***************************************************************************)
(* parse_message (resp.rs 55-62) and parse_array (resp.rs 104-119).        *)
(* buffer[0] panics on an empty buffer; &buffer[n..] panics when           *)
(* n > buffer.len().                                                       *)
(***************************************************************************)
RECURSIVE parse_message(_)
RECURSIVE parse_array_items(_, _, _, _)

\* parse_array's loop with `bytes_consumed = len` written for
\* `bytes_consumed += len`.
RECURSIVE parse_array_items_overwrite(_, _, _, _)
parse_array_items_overwrite(buf, remaining, bytes_consumed, items) ==
    IF remaining <= 0 THEN Ok(Array(items), bytes_consumed)
    ELSE IF bytes_consumed > Len(buf) THEN Panic
    ELSE
        LET item == parse_message(SubSeq(buf, bytes_consumed + 1, Len(buf)))
        IN  IF item.kind # "ok" THEN item
            ELSE parse_array_items_overwrite(buf, remaining - 1, item.n,
                                             Append(items, item.v))

\* The loop of parse_array: `remaining` iterations are left to run.
parse_array_items(buf, remaining, bytes_consumed, items) ==
    IF remaining <= 0 THEN Ok(Array(items), bytes_consumed)
    ELSE IF bytes_consumed > Len(buf) THEN Panic
    ELSE
        LET item == parse_message(SubSeq(buf, bytes_consumed + 1, Len(buf)))
        IN  IF item.kind # "ok" THEN item
            ELSE parse_array_items(buf, remaining - 1, bytes_consumed + item.n,
                                   Append(items, item.v))

parse_array(buf) ==
    LET r == read_until_crlf(Tail(buf))
    IN  IF ~r.found THEN Err
        ELSE
        LET array_length == parse_int(r.line)
        IN  IF ~array_length.ok THEN Err
            ELSE parse_array_items(buf, array_length.val, r.len + 1, <<>>)

parse_message(buf) ==
    IF buf = <<>> THEN Panic
    ELSE CASE buf[1] = Plus -> parse_simple_string(buf)
           [] buf[1] = Dollar -> parse_bulk_string(buf)
           [] buf[1] = Star -> parse_array(buf)
           [] OTHER -> Err

(***************************************************************************)
(* Decoder inputs: every concatenation of 1..MaxFragments fragments.       *)
(* The fragments are frame headers (with counts and lengths that are       *)
(* right, too large and negative), a whole simple-string frame, type       *)
(* bytes, payload (ASCII, a two-byte char, a lone lead byte that is not    *)
(* UTF-8), the delimiter and half of it.                                   *)
(***************************************************************************)
Fragments ==
    { <<Star, Zero + 1, CR, LF>>,
      <<Star, Zero + 2, CR, LF>>,
      <<Star, Minus, Zero + 1, CR, LF>>,
      <<Dollar, Zero + 1, CR, LF>>,
      <<Dollar, Zero + 2, CR, LF>>,
      <<Dollar, Minus, Zero + 1, CR, LF>>,
      <<Plus, 97, CR, LF>>,
      <<Plus>>,
      <<Dollar>>,
      <<97>>,
      <<CR, LF>>,
      <<CR>>,
      <<195, 169>>,
      <<195>> }

Inputs ==
    { Flatten(fs) : fs \in UNION { [1..k -> Fragments] : k \in 1..MaxFragments } }

(***************************************************************************)
(* The codec driver: decode a buffer; encode a value and decode the bytes. *)
(***************************************************************************)
HandlerIdle ==
    /\ stream_in = <<>>
    /\ closed = FALSE
    /\ buffer = <<>>
    /\ framed = <<>>
    /\ values_returned = <<>>
    /\ last = [op |-> "none"]
    /\ stream_out = <<>>
    /\ alive = TRUE

InitDecode ==
    /\ overflow_checks \in BOOLEAN
    /\ phase = "ready"
    /\ value = NoValue
    /\ input \in Inputs
    /\ result = NoResult
    /\ HandlerIdle

Decode ==
    /\ phase = "ready"
    /\ result' = parse_message(input)
    /\ phase' = "done"
    /\ UNCHANGED <<overflow_checks, value, input, handler_vars>>

SpecDecode == InitDecode /\ [][Decode]_vars

(***************************************************************************)
(* Properties of the decoder, checked under SpecDecode.                    *)
(***************************************************************************)
Decoded == phase = "done"

\* The header line of a '$' or '*' frame and the integer it declares.
HeaderLine(buf) == read_until_crlf(Tail(buf))
Declared(buf) == parse_int(HeaderLine(buf).line)
HasHeader(buf) ==
    /\ buf # <<>>
    /\ buf[1] \in {Dollar, Star}
    /\ HeaderLine(buf).found
    /\ Declared(buf).ok
HeaderLen(buf) == HeaderLine(buf).len + 1

\* C2: malformed-input safety.  Decoding a non-empty buffer ends in a value
\* or an error value, never in a panic (an index or a slice outside the
\* buffer, an unwrap of an error), and a value never claims more bytes than
\* the buffer holds.
C2_MalformedInputSafety ==
    Decoded =>
        /\ result.kind \in {"ok", "err"}
        /\ (result.kind = "ok" => result.n <= Len(input))

\* C8: bulk-string framing.  A '$' frame decodes to a value only when the
\* declared number of payload bytes is followed, inside the buffer, by CR
\* LF; the consumed length is then header + declared + 2 and at most the
\* buffer's length.
C8_BulkStringFraming ==
    (Decoded /\ input[1] = Dollar /\ result.kind = "ok") =>
        /\ result.n = HeaderLen(input) + Declared(input).val + 2
        /\ result.n <= Len(input)
        /\ input[result.n - 1] = CR
        /\ input[result.n] = LF

\* C10: a '$' or '*' header that declares a negative length or count is a
\* decode failure: decoding returns an error, not a value and not a panic
\* out of the wrapped length arithmetic.
C10_NegativeLengthRejected ==
    (Decoded /\ HasHeader(input) /\ Declared(input).val < 0) =>
        result.kind = "err"

\* The start offsets of an array's elements, each where the one before it
\* ended: offsets[i] is the offset of element i, offsets[k + 1] the end.
RECURSIVE ElementOffsets(_, _, _)
ElementOffsets(buf, k, from) ==
    IF k = 0 THEN <<from>>
    ELSE <<from>> \o ElementOffsets(buf, k - 1,
             from + parse_message(SubSeq(buf, from + 1, Len(buf))).n)

\* An array decoded from buf as r consumed its header plus what decoding
\* each element alone, left to right, consumes; so did every array in it.
RECURSIVE Additive(_, _)
Additive(buf, r) ==
    (r.kind = "ok" /\ r.v.tag = "Array") =>
        LET k == Len(r.v.items)
            offsets == ElementOffsets(buf, k, HeaderLen(buf))
            element(i) == parse_message(SubSeq(buf, offsets[i] + 1, Len(buf)))
        IN  /\ \A i \in 1..k :
                  /\ element(i).kind = "ok"
                  /\ element(i).v = r.v.items[i]
                  /\ Additive(SubSeq(buf, offsets[i] + 1, Len(buf)), element(i))
            /\ r.n = HeaderLen(buf) + Sum([i \in 1..k |-> element(i).n])

\* C6: array consumption additivity.  Whenever an array frame decodes, the
\* consumed length is the header length plus the sum of the consumed
\* lengths of its elements, decoded left to right each from the offset
\* where the previous one ended, at every nesting depth.
C6_ArrayConsumptionAdditivity == Decoded => Additive(input, result)

\* An array of two elements decoded, the first an array with an element.
C6_Witness ==
    /\ Decoded
    /\ result.kind = "ok"
    /\ result.v.tag = "Array"
    /\ Len(result.v.items) = 2
    /\ result.v.items[1].tag = "Array"
    /\ Len(result.v.items[1].items) = 1
    /\ result.n = Len(input)

(***************************************************************************)
(* Encode, then decode: the values handed to the encoder are the strings   *)
(* of at most MaxStrLen chars over an ASCII char and a two-byte char, as   *)
(* SimpleString and as BulkString, and the arrays of at most MaxItems of   *)
(* them.                                                                   *)
(***************************************************************************)
Strings == UNION { [1..k -> {97, 233}] : k \in 0..MaxStrLen }
Scalars == { SimpleString(s) : s \in Strings } \cup { BulkString(s) : s \in Strings }
Values == Scalars \cup { Array(vs) : vs \in UNION { [1..k -> Scalars] : k \in 0..MaxItems } }

InitCodec ==
    /\ overflow_checks \in BOOLEAN
    /\ phase = "value"
    /\ value \in Values
    /\ input = <<>>
    /\ result = NoResult
    /\ HandlerIdle

\* value.serialise().as_bytes(), as write_value computes it (resp.rs 50).
Encode ==
    /\ phase = "value"
    /\ LET s == serialise(value)
       IN  IF s.panic
           THEN phase' = "panicked" /\ input' = input
           ELSE phase' = "ready" /\ input' = as_bytes(s.text)
    /\ UNCHANGED <<overflow_checks, value, result, handler_vars>>

SpecCodec == InitCodec /\ [][Encode \/ Decode]_vars

\* C1: round trip.  For every value v, encoding v succeeds and decoding the
\* bytes gives back v with a consumed length of all the encoded bytes.
C1_RoundTrip ==
    /\ phase # "panicked"
    /\ (Decoded => result = Ok(value, Len(input)))

(***************************************************************************)
(* RespHandler (resp.rs 25-53) on one connection.                          *)
(*                                                                         *)
(* The transport's answer to read_buf is an error, or the bytes it         *)
(* appended to the buffer (none at end of stream).  The answer to write    *)
(* is an error, or the number of bytes it accepted.                        *)
(***************************************************************************)

\* What read_value returns for parse_message's result r: `?` passes an
\* error on, a panic unwinds, and of Ok((v, _)) only v is kept.  The buffer
\* was emptied by split() before the call.
Parsed(r) ==
    [ret |-> IF r.kind = "ok" THEN "some" ELSE r.kind,
     v |-> r.v, n |-> r.n, buffer |-> <<>>, parsed |-> TRUE]

\* read_value with the `bytes_read == 0` test left out.
read_value_no_eof_test(buf, rd) ==
    IF rd.err
    THEN [ret |-> "err", v |-> NoValue, n |-> 0, buffer |-> buf, parsed |-> FALSE]
    ELSE Parsed(parse_message(buf \o rd.bytes))

\* read_value (resp.rs 38-47).  read_buf appends to self.buffer;
\* self.buffer.split() hands the whole buffer to parse_message and leaves
\* self.buffer empty; the consumed length is dropped.
read_value(buf, rd) ==
    IF rd.err
    THEN [ret |-> "err", v |-> NoValue, n |-> 0, buffer |-> buf, parsed |-> FALSE]
    ELSE IF Len(rd.bytes) = 0
    THEN [ret |-> "none", v |-> NoValue, n |-> 0, buffer |-> buf \o rd.bytes,
          parsed |-> FALSE]
    ELSE Parsed(parse_message(buf \o rd.bytes))

\* write_value (resp.rs 49-52): one call of write, whose count of accepted
\* bytes is dropped.
write_value(v, wr) ==
    LET s == serialise(v)
    IN  IF s.panic THEN [ret |-> "panic", offered |-> <<>>, written |-> <<>>]
        ELSE LET bytes == as_bytes(s.text)
             IN  IF wr.err
                 THEN [ret |-> "err", offered |-> bytes, written |-> <<>>]
                 ELSE [ret |-> "ok", offered |-> bytes,
                       written |-> SubSeq(bytes, 1, wr.accepted)]

\* The frames of the peer: complete frames of ASCII scalars.
PeerValues == { SimpleString(<<97>>), BulkString(<<97, 98>>), SimpleString(<<98>>) }
Frame(v) == as_bytes(serialise(v).text)

InitHandler ==
    /\ overflow_checks \in BOOLEAN
    /\ phase = "handler"
    /\ value = NoValue
    /\ input = <<>>
    /\ result = NoResult
    /\ HandlerIdle

PeerSend ==
    /\ ~closed
    /\ Len(framed) < MaxFrames
    /\ \E v \in PeerValues :
        /\ framed' = Append(framed, v)
        /\ stream_in' = stream_in \o Frame(v)
    /\ UNCHANGED <<overflow_checks, codec_vars, closed, buffer, values_returned,
                   last, stream_out, alive>>

PeerClose ==
    /\ ~closed
    /\ closed' = TRUE
    /\ UNCHANGED <<overflow_checks, codec_vars, stream_in, buffer, framed,
                   values_returned, last, stream_out, alive>>

\* What read_buf may answer: any non-empty prefix of the bytes in flight
\* (the transport splits and coalesces frames as it likes), nothing once
\* the peer closed and all bytes were delivered, or an error.
ReadAnswers ==
    { [err |-> FALSE, bytes |-> SubSeq(stream_in, 1, k)] : k \in 1..Len(stream_in) }
    \cup (IF closed /\ stream_in = <<>> THEN {[err |-> FALSE, bytes |-> <<>>]} ELSE {})
    \cup {[err |-> TRUE, bytes |-> <<>>]}

\* The handler and the connection after read_value answered `out` to the
\* transport's answer rd.
AfterRead(rd, out) ==
    /\ buffer' = out.buffer
    /\ stream_in' = SubSeq(stream_in, Len(rd.bytes) + 1, Len(stream_in))
    /\ values_returned' = IF out.ret = "some"
                          THEN Append(values_returned, out.v)
                          ELSE values_returned
    /\ alive' = (out.ret \in {"some", "none"})
    /\ last' = [op |-> "read", transport_err |-> rd.err,
                bytes_read |-> Len(rd.bytes),
                buffer_before |-> buffer,
                accumulated |-> buffer \o rd.bytes,
                ret |-> out.ret, v |-> out.v, n |-> out.n,
                parsed |-> out.parsed]

\* One call of read_value.  The caller drops the connection on an error,
\* and a panic unwinds it.
ReadValue ==
    /\ alive
    /\ \E rd \in ReadAnswers : AfterRead(rd, read_value(buffer, rd))
    /\ UNCHANGED <<overflow_checks, codec_vars, closed, framed, stream_out>>

SpecRead == InitHandler /\ [][PeerSend \/ PeerClose \/ ReadValue]_vars

\* C3: in-order delivery.  The k-th value read_value returns is the k-th
\* value the peer framed: none skipped, none reordered.
C3_InOrderDelivery ==
    /\ Len(values_returned) <= Len(framed)
    /\ \A k \in 1..Len(values_returned) : values_returned[k] = framed[k]

\* C4: when read_value returns a value, the buffer keeps exactly the bytes
\* after the decoded frame: the accumulated bytes less the consumed length.
C4_ConsumedBytesRemoved ==
    (last.op = "read" /\ last.ret = "some") =>
        buffer = SubSeq(last.accumulated, last.n + 1, Len(last.accumulated))

\* The bytes are the start of a frame of the peer, and not all of it.
IsPartialFrame(bs) ==
    /\ bs # <<>>
    /\ \E v \in PeerValues :
        /\ Len(bs) < Len(Frame(v))
        /\ bs = SubSeq(Frame(v), 1, Len(bs))

\* C5: partial-read resumability.  A read that leaves the handler with only
\* the first part of a well-formed frame is no failure and keeps the bytes
\* received for the read that completes the frame.
C5_PartialReadResumable ==
    (last.op = "read" /\ ~last.transport_err /\ IsPartialFrame(last.accumulated)) =>
        /\ last.ret \notin {"err", "panic"}
        /\ buffer = last.accumulated

\* C9: closed-connection signal.  A read of zero bytes makes read_value
\* return the "no value" outcome, neither an error nor a value, without
\* a call of the decoder and with the buffer as it was.
C9_ClosedConnectionSignal ==
    (last.op = "read" /\ ~last.transport_err /\ last.bytes_read = 0) =>
        /\ last.ret = "none"
        /\ ~last.parsed
        /\ buffer = last.buffer_before
        /\ alive

\* The peer closed after a value was read, and the next read found no bytes.
C9_Witness ==
    /\ last.op = "read"
    /\ ~last.transport_err
    /\ last.bytes_read = 0
    /\ closed
    /\ Len(values_returned) >= 1

(***************************************************************************)
(* Writes.                                                                 *)
(***************************************************************************)
\* What write may answer for `bytes`: it accepted 1..Len(bytes) of them, or
\* an error.
WriteAnswers(bytes) ==
    { [err |-> FALSE, accepted |-> k] : k \in 1..Len(bytes) }
    \cup {[err |-> TRUE, accepted |-> 0]}

\* The handler and the connection after write_value(v) answered `out`.
AfterWrite(v, out) ==
    /\ stream_out' = stream_out \o out.written
    /\ alive' = (out.ret = "ok")
    /\ last' = [op |-> "write", value |-> v, ret |-> out.ret,
                offered |-> out.offered, written |-> out.written]

\* One call of write_value.  The caller drops the connection on an error.
WriteValue ==
    /\ alive
    /\ Len(stream_out) < MaxOut
    /\ \E v \in Values :
        \E wr \in WriteAnswers(as_bytes(serialise(v).text)) :
            AfterWrite(v, write_value(v, wr))
    /\ UNCHANGED <<overflow_checks, codec_vars, stream_in, closed, buffer, framed,
                   values_returned>>

SpecWrite == InitHandler /\ [][WriteValue]_vars

\* C7: when write_value returns success, every byte of the value's
\* encoding was handed to the transport, in order.
C7_WriteInFull ==
    (last.op = "write" /\ last.ret = "ok") =>
        /\ last.written = last.offered
        /\ Len(stream_out) >= Len(last.offered)
        /\ SubSeq(stream_out, Len(stream_out) - Len(last.offered) + 1,
                  Len(stream_out)) = last.offered

====
